---- MODULE Spec2Model ----
(***************************************************************************)
(* Word-level model of the allocator in src/src/main.rs and of the page    *)
(* provider in src/src/mmap.rs.                                            *)
(*                                                                         *)
(* Memory is a sparse map from 8-byte-aligned addresses to 64-bit words;   *)
(* a word that is absent reads as 0 (anonymous mappings are zero-filled).  *)
(* A 64-bit value v is represented by the integer congruent to it modulo   *)
(* 2^64 that is nearest to 0, so that 2^64 - 16 is written -16; additions  *)
(* and subtractions then wrap as the machine's do, and the unsigned order  *)
(* is ULt.  Every structure of the program is read and written through     *)
(* its field offsets, so stale headers, overlapping headers and headers    *)
(* read at the wrong place behave as they do in the program.               *)
(***************************************************************************)
EXTENDS Integers, Sequences, FiniteSets, TLC

\* ---------------------------------------------------------------- constants
PAGE_SIZE == 4096
TINY_HEAP_ALLOCATION_SIZE == 4 * PAGE_SIZE
TINY_BLOCK_SIZE == TINY_HEAP_ALLOCATION_SIZE \div 128
SMALL_HEAP_ALLOCATION_SIZE == 32 * PAGE_SIZE
SMALL_BLOCK_SIZE == SMALL_HEAP_ALLOCATION_SIZE \div 128

\* enum HeapGroup: discriminants in declaration order
Tiny == 0
Small == 1
Large == 2

\* #[repr(C)] struct Heap: field offsets and size
H_group == 0
H_group_payload == 8
H_next == 16
H_previous == 24
H_total_size == 32
H_free_size == 40
H_block_count == 48
Heap_size == 56

\* #[repr(C)] struct Block: field offsets and size
B_next == 0
B_previous == 8
B_data_size == 16
B_free == 24
Block_size == 32

\* ------------------------------------------------------------------- bounds
\* calls made by the callers in one run
MaxOps == 5
\* places the page provider may put a mapping, SlotPages pages apart
NSlots == 3
SlotPages == 64
\* steps of a list walk before it is taken to be an endless loop
MaxWalk == 12
\* the request sizes the callers draw from
Sizes == {0, 16, 48, 64, 200, 1032, 2000, 150000}
\* misdirected addresses the callers may pass to free: BogusWords words past
\* an address malloc returned
BogusWords == 1
\* the callers store into the first MaxWriteWords words of a payload, and
\* store the words of UserValues
MaxWriteWords == 4
UserValues == {1}
\* the longer runs of SpecHeld: their calls and their request sizes
MaxHeldOps == 6
\* iterations of the repeating caller of SpecRepeat
MaxIter == 4
\* the threads of SpecThreads, the calls they make and the sizes they ask for
NThreads == 2
MaxThreadOps == 5
ThreadSizes == {0, 16, 150000}
HeldSizes == {0, 64, 200, 150000}

\* ------------------------------------------------------------ machine words
\* Only and Bind evaluate a value once and name it: Bind(v, LAMBDA x : e) is
\* "let x = v; e", the form every statement of the program takes below.
Only(S) == CHOOSE r \in S : TRUE
Bind(v, F(_)) == Only({F(x) : x \in {v}})

ULt(a, b) == IF (a < 0) = (b < 0) THEN a < b ELSE b < 0
ULe(a, b) == a = b \/ ULt(a, b)

Rd(m, a) == Bind(a, LAMBDA x : IF x \in DOMAIN m THEN m[x] ELSE 0)

Wr(m, a, v) ==
    Only({ IF vv = 0 THEN [x \in DOMAIN mm \ {aa} |-> mm[x]]
           ELSE [x \in DOMAIN mm \cup {aa} |-> IF x = aa THEN vv ELSE mm[x]]
           : mm \in {m}, aa \in {a}, vv \in {v} })

RECURSIVE WrSeq(_, _)
WrSeq(m, ws) ==
    IF ws = <<>> THEN m
    ELSE Bind(Wr(m, ws[1][1], ws[1][2]), LAMBDA m1 : WrSeq(m1, Tail(ws)))

\* a bool or an enum tag is one byte: the low byte of the word at its offset
LowByte(w) == w % 256
SetBool(w, b) == Bind(w, LAMBDA x : (x - (x % 256)) + (IF b THEN 1 ELSE 0))

\* *a += d and the one-byte store of a bool at a
AddTo(m, a, d) == Wr(m, a, Rd(m, a) + d)
SetFlag(m, a, b) == Wr(m, a, SetBool(Rd(m, a), b))

Mapped(pg, a) == (a \div PAGE_SIZE) \in pg
AllMapped(pg, as) == \A a \in as : Mapped(pg, a)

PagesOf(base, len) ==
    {(base \div PAGE_SIZE) + i : i \in 0 .. (((len + PAGE_SIZE - 1) \div PAGE_SIZE) - 1)}

\* --------------------------------------------------------- src/src/mmap.rs
SlotBase(slot) == slot * SlotPages * PAGE_SIZE

\* mem_map: None (0) when the provider fails (slot 0), else the base it chose
mem_map(length, slot) == IF slot = 0 THEN 0 ELSE SlotBase(slot)

\* munmap fails with EINVAL on a misaligned, kernel-space or empty range
mem_unmap_ok(add, length) ==
    add % PAGE_SIZE = 0 /\ add >= 0 /\ length > 0

mem_unmap_pages(pg, add, length) == pg \ PagesOf(add, length)

mem_unmap_mem(m, add, length) ==
    Bind(PagesOf(add, length), LAMBDA gone :
    [x \in {y \in DOMAIN m : (y \div PAGE_SIZE) \notin gone} |-> m[x]])

\* --------------------------------------------------------- src/src/main.rs
HeapGroup_from(value) ==
    IF ULe(value, TINY_BLOCK_SIZE) THEN Tiny
    ELSE IF ULe(value, SMALL_BLOCK_SIZE) THEN Small
    ELSE Large

alloc_size(group, v) ==
    IF group = Tiny THEN TINY_HEAP_ALLOCATION_SIZE
    ELSE IF group = Small THEN SMALL_HEAP_ALLOCATION_SIZE
    ELSE v + Block_size + Heap_size

\* the words Heap::new(size) holds, as (offset, value) pairs
Heap_new(size) ==
    LET gp == HeapGroup_from(size)
        sz == alloc_size(gp, size)
    IN  << <<H_group, gp>>, <<H_group_payload, size>>, <<H_next, 0>>,
           <<H_previous, 0>>, <<H_total_size, sz>>,
           <<H_free_size, sz - Heap_size>>, <<H_block_count, 0>> >>

\* the words Block::new(size) holds, with `previous` as set by the caller
Block_new(size, previous) ==
    << <<B_next, 0>>, <<B_previous, previous>>, <<B_data_size, size>>, <<B_free, 0>> >>

At(base, fields) == [i \in 1 .. Len(fields) |-> <<base + fields[i][1], fields[i][2]>>]

align(to, from) == ((from + to - 1) \div to) * to

\* create_heap after a successful mem_map at ptr
create_heap(m, size, ptr) == WrSeq(m, At(ptr, Heap_new(size)))

create_heap_len(size) == alloc_size(HeapGroup_from(size), size)

RECURSIVE get_last_block(_, _, _, _)
get_last_block(m, pg, last_block, fuel) ==
    IF fuel = 0 THEN [err |-> "hang", blk |-> 0]
    ELSE IF ~Mapped(pg, last_block + B_next) THEN [err |-> "segv", blk |-> 0]
    ELSE Bind(Rd(m, last_block + B_next), LAMBDA next :
         IF next # 0 THEN get_last_block(m, pg, next, fuel - 1)
         ELSE [err |-> "", blk |-> last_block])

RECURSIVE get_free_block_loop(_, _, _, _, _)
get_free_block_loop(m, pg, size, curr_block, fuel) ==
    IF fuel = 0 THEN [err |-> "hang", some |-> FALSE, blk |-> 0]
    ELSE IF ~AllMapped(pg, {curr_block + B_next, curr_block + B_free})
         THEN [err |-> "segv", some |-> FALSE, blk |-> 0]
    ELSE Bind(LowByte(Rd(m, curr_block + B_free)), LAMBDA free_byte :
         IF free_byte \notin {0, 1}
         THEN [err |-> "ub", some |-> FALSE, blk |-> 0]
         ELSE IF free_byte = 1 /\ ULe(size, Rd(m, curr_block + B_data_size))
         THEN [err |-> "", some |-> TRUE, blk |-> curr_block]
         ELSE Bind(Rd(m, curr_block + B_next), LAMBDA next :
              IF next = 0 THEN [err |-> "", some |-> FALSE, blk |-> 0]
              ELSE get_free_block_loop(m, pg, size, next, fuel - 1)))

get_free_block(m, pg, size, heap) ==
    get_free_block_loop(m, pg, size, heap + Heap_size, MaxWalk)

RECURSIVE get_heap_loop(_, _, _, _, _)
get_heap_loop(m, pg, s, first_heap, fuel) ==
    IF fuel = 0 THEN [err |-> "hang", some |-> FALSE, heap |-> 0]
    ELSE IF ~AllMapped(pg, {first_heap, first_heap + H_block_count})
         THEN [err |-> "segv", some |-> FALSE, heap |-> 0]
    ELSE Bind(LowByte(Rd(m, first_heap + H_group)), LAMBDA group :
         IF group \notin {Tiny, Small, Large}
         THEN [err |-> "ub", some |-> FALSE, heap |-> 0]
         ELSE IF group = HeapGroup_from(s)
                 /\ ULe(s + Block_size, Rd(m, first_heap + H_free_size))
         THEN [err |-> "", some |-> TRUE, heap |-> first_heap]
         ELSE Bind(Rd(m, first_heap + H_next), LAMBDA next :
              IF next = 0 THEN [err |-> "", some |-> FALSE, heap |-> 0]
              ELSE get_heap_loop(m, pg, s, next, fuel - 1)))

\* what get_heap leaves: the arena it found, and the memory, mappings and list
\* head after it; maplen is the length it asked of the provider (0: none)
Found(r, m, pg, head, maplen) ==
    [err |-> r.err, diag |-> "", some |-> r.some, heap |-> r.heap,
     mem |-> m, pages |-> pg, head |-> head, maplen |-> maplen]

\* get_heap: maps the first arena when the list is empty, then walks the list
get_heap(m, pg, head, size, slot) ==
    IF head = 0
    THEN Bind(mem_map(create_heap_len(size), slot), LAMBDA ptr :
         IF ptr = 0
         THEN [err |-> "panic", diag |-> "map failed", some |-> FALSE, heap |-> 0,
               mem |-> m, pages |-> pg, head |-> head,
               maplen |-> create_heap_len(size)]
         ELSE Bind(create_heap(m, size, ptr), LAMBDA m1 :
              Bind(pg \cup PagesOf(ptr, create_heap_len(size)), LAMBDA pg1 :
              Bind(get_heap_loop(m1, pg1, size, ptr, MaxWalk), LAMBDA r :
              Found(r, m1, pg1, ptr, create_heap_len(size))))))
    ELSE Bind(get_heap_loop(m, pg, size, head, MaxWalk), LAMBDA r :
         Found(r, m, pg, head, 0))

\* the outcome of one call: the memory, the mappings and the list head it
\* leaves, what it returned, how it ended and the placement path it took
Outcome(m, pg, head, ret, status, diag, path, maplen) ==
    [mem |-> m, pages |-> pg, head |-> head, ret |-> ret, status |-> status,
     diag |-> diag, path |-> path, maplen |-> maplen]

\* ---------------------------------------------------------------- malloc
\* block placement in suitable_heap (main.rs 229-271)
malloc_empty(m, pg, head, heap, size, chk, maplen) ==
    Bind(heap + Heap_size, LAMBDA last_block :
    Bind(AddTo(m, heap + H_block_count, 1), LAMBDA m1 :
    Bind(Rd(m1, heap + H_free_size), LAMBDA fs :
    IF chk /\ ULt(fs, size + Block_size)
    THEN Outcome(m1, pg, head, 0, "panic", "attempt to subtract with overflow",
                 "empty", maplen)
    ELSE Bind(Wr(m1, heap + H_free_size, fs - (size + Block_size)), LAMBDA m2 :
         IF ~AllMapped(pg, {last_block, last_block + B_free})
         THEN Outcome(m2, pg, head, 0, "segv", "", "empty", maplen)
         ELSE Outcome(WrSeq(m2, At(last_block, Block_new(size, 0))), pg, head,
                      last_block + Block_size, "ok", "", "empty", maplen)))))

malloc_split(m, pg, head, heap, size, chk, maplen, free_block) ==
    Bind(free_block + Block_size + size, LAMBDA block2 :
    IF ~Mapped(pg, block2 + B_free)
    THEN Outcome(m, pg, head, 0, "segv", "", "split", maplen)
    ELSE
    Bind(SetFlag(m, block2 + B_free, TRUE), LAMBDA m1 :
    Bind(Rd(m1, free_block + B_data_size), LAMBDA ds :
    IF chk /\ (ULt(ds, Block_size) \/ ULt(ds - Block_size, size))
    THEN Outcome(m1, pg, head, 0, "panic", "attempt to subtract with overflow",
                 "split", maplen)
    ELSE IF ~AllMapped(pg, {block2, block2 + B_data_size})
    THEN Outcome(m1, pg, head, 0, "segv", "", "split", maplen)
    ELSE
    Bind(Wr(m1, block2 + B_data_size, ds - Block_size - size), LAMBDA m2 :
    Bind(Wr(m2, block2 + B_next, 0), LAMBDA m3 :
    Bind(Wr(m3, block2 + B_previous, free_block), LAMBDA m4 :
    Bind(Wr(m4, free_block + B_data_size, size), LAMBDA m5 :
    Bind(SetFlag(m5, free_block + B_free, FALSE), LAMBDA m6 :
    Bind(Wr(m6, free_block + B_next, block2), LAMBDA m7 :
    Bind(AddTo(m7, heap + H_block_count, 1), LAMBDA m8 :
    Outcome(m8, pg, head, free_block + Block_size, "ok", "", "split", maplen)
    ))))))))))

malloc_tail(m, pg, head, heap, size, chk, maplen) ==
    Bind(get_last_block(m, pg, heap + Heap_size, MaxWalk), LAMBDA lb :
    IF lb.err # ""
    THEN Outcome(m, pg, head, 0, lb.err, "", "tail", maplen)
    ELSE
    Bind(lb.blk, LAMBDA last_block :
    Bind(last_block + Block_size + Rd(m, last_block + B_data_size), LAMBDA new_block :
    Bind(Wr(m, last_block + B_next, new_block), LAMBDA m1 :
    Bind(AddTo(m1, heap + H_block_count, 1), LAMBDA m2 :
    Bind(Rd(m2, heap + H_free_size), LAMBDA fs :
    IF chk /\ ULt(fs, size + Block_size)
    THEN Outcome(m2, pg, head, 0, "panic", "attempt to subtract with overflow",
                 "tail", maplen)
    ELSE
    Bind(Wr(m2, heap + H_free_size, fs - (size + Block_size)), LAMBDA m3 :
    IF ~AllMapped(pg, {new_block, new_block + B_free})
    THEN Outcome(m3, pg, head, 0, "segv", "", "tail", maplen)
    ELSE Outcome(WrSeq(m3, At(new_block, Block_new(size, last_block))), pg, head,
                 new_block + Block_size, "ok", "", "tail", maplen))))))))

malloc_place(m, pg, head, heap, size, chk, maplen) ==
    IF ~Mapped(pg, heap + H_block_count)
    THEN Outcome(m, pg, head, 0, "segv", "", "none", maplen)
    ELSE IF Rd(m, heap + H_block_count) = 0
    THEN malloc_empty(m, pg, head, heap, size, chk, maplen)
    ELSE Bind(get_free_block(m, pg, size, heap), LAMBDA fb :
         IF fb.err # ""
         THEN Outcome(m, pg, head, 0, fb.err, "", "none", maplen)
         ELSE IF fb.some
         THEN IF Rd(m, fb.blk + B_data_size) = size
              THEN Outcome(m, pg, head, fb.blk, "ok", "", "exact", maplen)
              ELSE malloc_split(m, pg, head, heap, size, chk, maplen, fb.blk)
         ELSE malloc_tail(m, pg, head, heap, size, chk, maplen))

\* the large fast path (main.rs 211-215)
malloc_large(m, pg, head, size, slot) ==
    Bind(mem_map(size + Block_size, slot), LAMBDA ptr :
    IF ptr = 0
    THEN Outcome(m, pg, head, 0, "panic", "map failed", "large", size + Block_size)
    ELSE Outcome(Wr(m, ptr + B_data_size, size),
                 pg \cup PagesOf(ptr, size + Block_size), head,
                 ptr + Block_size, "ok", "", "large", size + Block_size))

\* a new arena is pushed on the front of the list (main.rs 219-227)
malloc_new_heap(m, pg, head, size, slot, chk) ==
    Bind(mem_map(create_heap_len(size), slot), LAMBDA new_heap :
    IF new_heap = 0
    THEN Outcome(m, pg, head, 0, "panic", "map failed", "none", create_heap_len(size))
    ELSE
    Bind(create_heap(m, size, new_heap), LAMBDA m1 :
    Bind(pg \cup PagesOf(new_heap, create_heap_len(size)), LAMBDA pg1 :
    Bind(Wr(m1, new_heap + H_next, head), LAMBDA m2 :
    IF ~Mapped(pg1, head + H_previous)
    THEN Outcome(m2, pg1, head, 0, "segv", "", "none", create_heap_len(size))
    ELSE
    Bind(Wr(m2, head + H_previous, new_heap), LAMBDA m3 :
    malloc_place(m3, pg1, new_heap, new_heap, size, chk, create_heap_len(size)))))))

malloc(m, pg, head, requested, slot, chk) ==
    Bind(align(8, requested), LAMBDA size :
    IF ULt(SMALL_HEAP_ALLOCATION_SIZE, size)
    THEN malloc_large(m, pg, head, size, slot)
    ELSE Bind(get_heap(m, pg, head, size, slot), LAMBDA g :
         IF g.err # ""
         THEN Outcome(g.mem, g.pages, g.head, 0, g.err, g.diag, "none", g.maplen)
         ELSE IF g.some
         THEN malloc_place(g.mem, g.pages, g.head, g.heap, size, chk, g.maplen)
         ELSE malloc_new_heap(g.mem, g.pages, g.head, size, slot, chk)))

\* ------------------------------------------------------------------ free
RECURSIVE parent_heap_blocks(_, _, _, _, _, _)
parent_heap_blocks(m, pg, block, curr_heap, curr, fuel) ==
    IF fuel = 0 THEN [err |-> "hang", some |-> FALSE]
    ELSE IF ~(ULt(0, Rd(m, curr_heap + H_block_count)) /\ curr # 0)
         THEN [err |-> "", some |-> FALSE]
    ELSE IF curr + Block_size = block
         THEN [err |-> "", some |-> TRUE]
    ELSE IF ~Mapped(pg, curr + B_next)
         THEN [err |-> "segv", some |-> FALSE]
    ELSE Bind(Rd(m, curr + B_next), LAMBDA next :
         parent_heap_blocks(m, pg, block, curr_heap, next, fuel - 1))

RECURSIVE parent_heap_loop(_, _, _, _, _)
parent_heap_loop(m, pg, block, curr_heap, fuel) ==
    IF curr_heap = 0 THEN [err |-> "", some |-> FALSE, heap |-> 0]
    ELSE IF fuel = 0 THEN [err |-> "hang", some |-> FALSE, heap |-> 0]
    ELSE IF ~AllMapped(pg, {curr_heap + H_next, curr_heap + H_block_count})
         THEN [err |-> "segv", some |-> FALSE, heap |-> 0]
    ELSE Bind(parent_heap_blocks(m, pg, block, curr_heap,
                                 curr_heap + Heap_size, MaxWalk), LAMBDA r :
         IF r.err # "" THEN [err |-> r.err, some |-> FALSE, heap |-> 0]
         ELSE IF r.some THEN [err |-> "", some |-> TRUE, heap |-> curr_heap]
         ELSE Bind(Rd(m, curr_heap + H_next), LAMBDA next :
              parent_heap_loop(m, pg, block, next, fuel - 1)))

parent_heap(m, pg, block, head) == parent_heap_loop(m, pg, block, head, MaxWalk)

\* merge_right and merge_left leave [err, diag, mem, pages]
Merged(err, diag, m, pg) == [err |-> err, diag |-> diag, mem |-> m, pages |-> pg]

merge_right(m, pg, block, heap, chk) ==
    Bind(Rd(m, block + B_next), LAMBDA next :
    IF next = 0 THEN Merged("", "", m, pg)
    ELSE IF ~AllMapped(pg, {next, next + B_free}) THEN Merged("segv", "", m, pg)
    ELSE IF LowByte(Rd(m, next + B_free)) \notin {0, 1} THEN Merged("ub", "", m, pg)
    ELSE IF LowByte(Rd(m, next + B_free)) = 0 THEN Merged("", "", m, pg)
    ELSE
    Bind(AddTo(m, block + B_data_size, Rd(m, next + B_data_size) + Block_size), LAMBDA m1 :
    Bind(Rd(m1, next + B_next), LAMBDA nxt :
    Bind(Wr(m1, block + B_next, nxt), LAMBDA m2 :
    IF nxt # 0 /\ ~Mapped(pg, nxt + B_previous) THEN Merged("segv", "", m2, pg)
    ELSE
    Bind(IF nxt # 0 THEN Wr(m2, nxt + B_previous, block) ELSE m2, LAMBDA m3 :
    IF chk /\ Rd(m3, heap + H_block_count) = 0
    THEN Merged("panic", "attempt to subtract with overflow", m3, pg)
    ELSE Merged("", "", AddTo(m3, heap + H_block_count, -1), pg))))))

\* the coalescing half of merge_left (main.rs 325-338)
merge_left_join(m, pg, block, heap, chk) ==
    Bind(Rd(m, block + B_previous), LAMBDA prev_ptr :
    IF prev_ptr = 0 THEN Merged("", "", m, pg)
    ELSE IF ~AllMapped(pg, {prev_ptr, prev_ptr + B_free}) THEN Merged("segv", "", m, pg)
    ELSE IF LowByte(Rd(m, prev_ptr + B_free)) \notin {0, 1} THEN Merged("ub", "", m, pg)
    ELSE IF LowByte(Rd(m, prev_ptr + B_free)) = 0 THEN Merged("", "", m, pg)
    ELSE
    Bind(Rd(m, block + B_next), LAMBDA next_ptr :
    Bind(Wr(m, prev_ptr + B_next, next_ptr), LAMBDA m1 :
    Bind(AddTo(m1, prev_ptr + B_data_size, Rd(m1, block + B_data_size) + Block_size),
         LAMBDA m2 :
    IF next_ptr # 0 /\ ~Mapped(pg, next_ptr + B_previous) THEN Merged("segv", "", m2, pg)
    ELSE
    Bind(IF next_ptr # 0 THEN Wr(m2, next_ptr + B_previous, prev_ptr) ELSE m2, LAMBDA m3 :
    IF chk /\ Rd(m3, heap + H_block_count) = 0
    THEN Merged("panic", "attempt to subtract with overflow", m3, pg)
    ELSE Merged("", "", AddTo(m3, heap + H_block_count, -1), pg))))))

\* the reclaiming half of merge_left (main.rs 339-356)
merge_left_reclaim(m, pg, head, heap) ==
    Bind(heap + Heap_size, LAMBDA block :
    IF Rd(m, heap + H_block_count) # 1 THEN Merged("", "", m, pg)
    ELSE IF ~Mapped(pg, block + B_free) THEN Merged("segv", "", m, pg)
    ELSE IF LowByte(Rd(m, block + B_free)) \notin {0, 1} THEN Merged("ub", "", m, pg)
    ELSE IF LowByte(Rd(m, block + B_free)) = 0 THEN Merged("", "", m, pg)
    ELSE
    Bind(Rd(m, heap + H_previous), LAMBDA previous :
    IF previous # 0 /\ ~Mapped(pg, previous + H_next) THEN Merged("segv", "", m, pg)
    ELSE
    Bind(IF previous # 0 THEN Wr(m, previous + H_next, Rd(m, heap + H_next)) ELSE m,
         LAMBDA m1 :
    Bind(Rd(m1, heap + H_next), LAMBDA next :
    IF next # 0 /\ ~Mapped(pg, next + H_previous) THEN Merged("segv", "", m1, pg)
    ELSE
    Bind(IF next # 0 THEN Wr(m1, next + H_previous, Rd(m1, heap + H_previous)) ELSE m1,
         LAMBDA m2 :
    IF heap = head THEN Merged("", "", m2, pg)
    ELSE
    Bind(Rd(m2, heap + H_total_size), LAMBDA total_size :
    IF ~mem_unmap_ok(heap, total_size)
    THEN Merged("panic", "unmap failed", m2, pg)
    ELSE Merged("", "", mem_unmap_mem(m2, heap, total_size),
                mem_unmap_pages(pg, heap, total_size))))))))

merge_left(m, pg, head, block, heap, chk) ==
    Bind(merge_left_join(m, pg, block, heap, chk), LAMBDA j :
    IF j.err # "" THEN j ELSE merge_left_reclaim(j.mem, pg, head, heap))

\* release of an address no arena owns (main.rs 364-375)
free_unowned(m, pg, head, ptr) ==
    Bind(ptr - Block_size, LAMBDA block_ptr :
    IF ~Mapped(pg, block_ptr + B_data_size)
    THEN Outcome(m, pg, head, 0, "segv", "", "none", 0)
    ELSE
    Bind(Rd(m, block_ptr + B_data_size), LAMBDA ds :
    IF ULt(SMALL_HEAP_ALLOCATION_SIZE, ds)
    THEN IF mem_unmap_ok(block_ptr, ds + Block_size)
         THEN Outcome(mem_unmap_mem(m, block_ptr, ds + Block_size),
                      mem_unmap_pages(pg, block_ptr, ds + Block_size),
                      head, 0, "ok", "", "large", 0)
         ELSE Outcome(m, pg, head, 0, "panic", "unmap failed", "large", 0)
    ELSE Outcome(m, pg, head, 0, "panic", "invalid pointer", "none", 0)))

\* release of a block of the arena `heap` (main.rs 377-386)
free_owned(m, pg, head, ptr, heap, chk) ==
    Bind(ptr - Block_size, LAMBDA block :
    IF ~AllMapped(pg, {block, block + B_free})
    THEN Outcome(m, pg, head, 0, "segv", "", "arena", 0)
    ELSE IF LowByte(Rd(m, block + B_free)) \notin {0, 1}
    THEN Outcome(m, pg, head, 0, "ub", "", "arena", 0)
    ELSE IF LowByte(Rd(m, block + B_free)) = 1
    THEN Outcome(m, pg, head, 0, "panic", "double free detected", "arena", 0)
    ELSE
    Bind(SetFlag(m, block + B_free, TRUE), LAMBDA m1 :
    Bind(AddTo(m1, heap + H_free_size, Rd(m1, block + B_data_size) + Block_size),
         LAMBDA m2 :
    Bind(merge_right(m2, pg, block, heap, chk), LAMBDA r :
    IF r.err # ""
    THEN Outcome(r.mem, pg, head, 0, r.err, r.diag, "arena", 0)
    ELSE
    Bind(merge_left(r.mem, pg, head, block, heap, chk), LAMBDA l :
    IF l.err # ""
    THEN Outcome(l.mem, l.pages, head, 0, l.err, l.diag, "arena", 0)
    ELSE Outcome(l.mem, l.pages, head, 0, "ok", "", "arena", 0))))))

free(m, pg, head, ptr, chk) ==
    Bind(parent_heap(m, pg, ptr, head), LAMBDA ph :
    IF ph.err # "" THEN Outcome(m, pg, head, 0, ph.err, "", "none", 0)
    ELSE IF ph.some THEN free_owned(m, pg, head, ptr, ph.heap, chk)
    ELSE free_unowned(m, pg, head, ptr))

\* ------------------------------------------------------------ state machine
VARIABLES
    HEAP_ANCHOR,      \* HeapHandle.heap: the head of the arena list (0: null)
    mem,              \* the words of memory that are not 0
    pages,            \* the pages that are mapped
    overflow_checks,  \* the build: TRUE panics on integer overflow, FALSE wraps
    status,           \* "ok", or how the process ended
    diag,             \* the panic message, when status = "panic"
    op, arg, ret,     \* the last call, its argument and what it returned
    path,             \* the path the last call took
    live,             \* address -> aligned size, for addresses returned and not released
    released,         \* addresses released and not returned again since
    ever,             \* every address malloc ever returned
    fresh,            \* the provider: the lowest slot it never handed out
    nops,             \* calls made so far
    loop,             \* the caller that repeats malloc(size); free: its size, the
                      \* iterations it completed, the accounting after the first
    pc,               \* per thread: "idle", "lock" (in lock()), "in" (past it)
    mutex,            \* the thread that holds the mutex of HEAP_ANCHOR, or 0
    seen,             \* per thread: its call, and the allocator state it has read
    order             \* the calls in the order they got past lock()

vars == <<HEAP_ANCHOR, mem, pages, overflow_checks, status, diag, op, arg, ret,
          path, live, released, ever, fresh, nops, loop, pc, mutex, seen, order>>

\* what the callers of the single-threaded specifications leave alone
threaded == <<pc, mutex, seen, order>>

EmptyMap == [x \in {} |-> 0]

Threads == 1 .. NThreads
NoCall == [op |-> "none", arg |-> 0, at |-> 0, mem |-> EmptyMap, pages |-> {}, head |-> 0]

\* the process before its first call
Started ==
    /\ HEAP_ANCHOR = 0
    /\ mem = EmptyMap
    /\ pages = {}
    /\ overflow_checks \in BOOLEAN
    /\ status = "ok"
    /\ diag = ""
    /\ op = "init"
    /\ arg = 0
    /\ ret = 0
    /\ path = "none"
    /\ live = EmptyMap
    /\ released = {}
    /\ ever = {}
    /\ fresh = 1
    /\ nops = 0
    /\ pc = [t \in Threads |-> "idle"]
    /\ mutex = 0
    /\ seen = [t \in Threads |-> NoCall]
    /\ order = <<>>

NoLoop == [size |-> 0, iter |-> 0, acct |-> <<>>]

Init == Started /\ loop = NoLoop

\* The provider never hands out pages that are mapped.  Of the placements the
\* kernel may choose, it takes the lowest slot that is free again (an address
\* that was unmapped is reused) or the lowest slot never used (it is not).
SlotFree(slot, length) == PagesOf(SlotBase(slot), length) \cap pages = {}

ProviderMayChoose(slot, length) ==
    /\ SlotFree(slot, length)
    /\ \/ slot = fresh
       \/ /\ slot < fresh
          /\ \A t \in 1 .. (slot - 1) : ~SlotFree(t, length)

\* a call of malloc that reads the allocator's state as (m, pg, head)
MallocOn(m, pg, head, size, slot) ==
    /\ status = "ok"
    /\ \E r \in {malloc(m, pg, head, size, slot, overflow_checks)} :
           /\ IF r.maplen = 0 THEN slot = 0
              ELSE slot = 0 \/ ProviderMayChoose(slot, r.maplen)
           /\ HEAP_ANCHOR' = r.head
           /\ mem' = r.mem
           /\ pages' = r.pages
           /\ status' = r.status
           /\ diag' = r.diag
           /\ ret' = r.ret
           /\ path' = r.path
           /\ live' = IF r.status = "ok"
                      THEN [x \in DOMAIN live \cup {r.ret} |->
                               IF x = r.ret THEN align(8, size) ELSE live[x]]
                      ELSE live
           /\ released' = IF r.status = "ok" THEN released \ {r.ret} ELSE released
           /\ ever' = IF r.status = "ok" THEN ever \cup {r.ret} ELSE ever
           /\ fresh' = IF r.pages # pages /\ slot = fresh THEN fresh + 1 ELSE fresh
    /\ op' = "malloc"
    /\ arg' = size
    /\ nops' = nops + 1
    /\ UNCHANGED overflow_checks

Malloc(size, slot) == MallocOn(mem, pages, HEAP_ANCHOR, size, slot)

\* the addresses the callers pass to free: returned ones, null, misdirected ones
FreeArgs ==
    DOMAIN live \cup released \cup {0} \cup {p + 8 * BogusWords : p \in DOMAIN live}

\* a call of free that reads the allocator's state as (m, pg, head)
FreeOn(m, pg, head, ptr) ==
    /\ status = "ok"
    /\ \E r \in {free(m, pg, head, ptr, overflow_checks)} :
           /\ HEAP_ANCHOR' = r.head
           /\ mem' = r.mem
           /\ pages' = r.pages
           /\ status' = r.status
           /\ diag' = r.diag
           /\ ret' = r.ret
           /\ path' = r.path
           /\ live' = IF r.status = "ok"
                      THEN [x \in DOMAIN live \ {ptr} |-> live[x]]
                      ELSE live
           /\ released' = IF r.status = "ok" /\ ptr \in ever
                          THEN released \cup {ptr} ELSE released
    /\ op' = "free"
    /\ arg' = ptr
    /\ nops' = nops + 1
    /\ UNCHANGED <<overflow_checks, ever, fresh>>

Free(ptr) == FreeOn(mem, pages, HEAP_ANCHOR, ptr)

\* a caller stores the word v into word w of the payload malloc returned at p
UserWrite(p, w, v) ==
    /\ status = "ok"
    /\ p \in DOMAIN live
    /\ 8 * w + 8 <= live[p]
    /\ Mapped(pages, p + 8 * w)
    /\ Rd(mem, p + 8 * w) # v
    /\ mem' = Wr(mem, p + 8 * w, v)
    /\ op' = "write"
    /\ arg' = p + 8 * w
    /\ ret' = 0
    /\ path' = "none"
    /\ nops' = nops + 1
    /\ UNCHANGED <<HEAP_ANCHOR, pages, overflow_checks, status, diag, live,
                   released, ever, fresh>>

\* the callers make at most MaxOps calls and stores
Next ==
    \/ /\ nops < MaxOps
       /\ \E size \in Sizes, slot \in 0 .. NSlots : Malloc(size, slot)
       /\ UNCHANGED <<loop, threaded>>
    \/ /\ nops < MaxOps
       /\ \E ptr \in FreeArgs : Free(ptr)
       /\ UNCHANGED <<loop, threaded>>
    \/ /\ nops < MaxOps
       /\ \E p \in DOMAIN live, w \in 0 .. (MaxWriteWords - 1), v \in UserValues :
             UserWrite(p, w, v)
       /\ UNCHANGED <<loop, threaded>>

Spec == Init /\ [][Next]_vars

\* Callers that release only addresses they hold and ask for the sizes of
\* HeldSizes make up to MaxHeldOps calls and stores.
NextHeld ==
    \/ /\ nops < MaxHeldOps
       /\ \E size \in HeldSizes, slot \in 0 .. NSlots : Malloc(size, slot)
       /\ UNCHANGED <<loop, threaded>>
    \/ /\ nops < MaxHeldOps
       /\ \E ptr \in DOMAIN live : Free(ptr)
       /\ UNCHANGED <<loop, threaded>>
    \/ /\ nops < MaxHeldOps
       /\ \E p \in DOMAIN live, w \in 0 .. (MaxWriteWords - 1), v \in UserValues :
             UserWrite(p, w, v)
       /\ UNCHANGED <<loop, threaded>>

SpecHeld == Init /\ [][NextHeld]_vars

\* ------------------------------------------------- views of the data structure
\* the arenas reached from the list head by following next
RECURSIVE ArenasFrom(_, _, _, _)
ArenasFrom(m, pg, h, fuel) ==
    IF h = 0 \/ fuel = 0 \/ ~AllMapped(pg, {h, h + H_block_count}) THEN <<>>
    ELSE Bind(Rd(m, h + H_next), LAMBDA next :
         <<h>> \o ArenasFrom(m, pg, next, fuel - 1))

ArenaSeq(m, pg, head) == ArenasFrom(m, pg, head, MaxWalk)
ArenaSet(m, pg, head) ==
    Bind(ArenaSeq(m, pg, head), LAMBDA as : {as[i] : i \in 1 .. Len(as)})

\* the block headers reached from the arena body by following next
RECURSIVE BlocksFrom(_, _, _, _)
BlocksFrom(m, pg, b, fuel) ==
    IF b = 0 \/ fuel = 0 \/ ~AllMapped(pg, {b, b + B_free}) THEN <<>>
    ELSE Bind(Rd(m, b + B_next), LAMBDA next :
         <<b>> \o BlocksFrom(m, pg, next, fuel - 1))

BlockSeq(m, pg, h) ==
    IF Rd(m, h + H_block_count) = 0 THEN <<>>
    ELSE BlocksFrom(m, pg, h + Heap_size, MaxWalk)
BlockSet(m, pg, h) ==
    Bind(BlockSeq(m, pg, h), LAMBDA bs : {bs[i] : i \in 1 .. Len(bs)})

RECURSIVE SumSeq(_)
SumSeq(q) == IF q = <<>> THEN 0 ELSE q[1] + SumSeq(Tail(q))

\* the state after a call of malloc or free that returned
AfterCall == status = "ok" /\ op \in {"malloc", "free"}

\* ------------------------------------------------- the repeating caller
\* each arena of the list with its free_size and block_count
Accounting(m, pg, head) ==
    Bind(ArenaSeq(m, pg, head), LAMBDA as :
        [i \in 1 .. Len(as) |->
            <<as[i], Rd(m, as[i] + H_free_size), Rd(m, as[i] + H_block_count)>>])

\* a = malloc(size); free(a), MaxIter times over, for one size of Sizes
InitRepeat ==
    /\ Started
    /\ loop \in {[size |-> size, iter |-> 0, acct |-> <<>>] : size \in Sizes}

RepeatMalloc ==
    /\ loop.iter < MaxIter
    /\ op \in {"init", "free"}
    /\ \E slot \in 0 .. NSlots : Malloc(loop.size, slot)
    /\ UNCHANGED <<loop, threaded>>

RepeatFree ==
    /\ op = "malloc"
    /\ Free(ret)
    /\ loop' = [loop EXCEPT !.iter = @ + 1,
                            !.acct = IF loop.iter = 0 /\ status' = "ok"
                                     THEN Accounting(mem', pages', HEAP_ANCHOR')
                                     ELSE @]
    /\ UNCHANGED threaded

NextRepeat == RepeatMalloc \/ RepeatFree

SpecRepeat == InitRepeat /\ [][NextRepeat]_vars

\* ---------------------------------------------------------------- threads
\* malloc and free begin with HEAP_ANCHOR.lock().unwrap() (main.rs 209, 361),
\* before the large-size test and before every return, and hold the guard
\* until they return.  TakesLock says which calls do so.
TakesLockUnlessLarge(call_op, call_arg) ==
    ~(call_op = "malloc" /\ ULt(SMALL_HEAP_ALLOCATION_SIZE, align(8, call_arg)))

TakesLock(call_op, call_arg) == TRUE

\* a thread calls malloc, or free of an address no pending call releases
ThreadCall(t, call_op, call_arg) ==
    /\ status = "ok"
    /\ pc[t] = "idle"
    /\ nops + Cardinality({u \in Threads : pc[u] # "idle"}) < MaxThreadOps
    /\ call_op = "free" =>
          \A u \in Threads : ~(seen[u].op = "free" /\ seen[u].arg = call_arg)
    /\ pc' = [pc EXCEPT ![t] = "lock"]
    /\ seen' = [seen EXCEPT ![t] = [NoCall EXCEPT !.op = call_op, !.arg = call_arg]]
    /\ UNCHANGED <<HEAP_ANCHOR, mem, pages, overflow_checks, status, diag, op, arg,
                   ret, path, live, released, ever, fresh, nops, loop, mutex, order>>

\* lock() returns once the mutex is free; the thread then reads the state
ThreadLock(t) ==
    /\ status = "ok"
    /\ pc[t] = "lock"
    /\ TakesLock(seen[t].op, seen[t].arg) => mutex = 0
    /\ mutex' = IF TakesLock(seen[t].op, seen[t].arg) THEN t ELSE mutex
    /\ pc' = [pc EXCEPT ![t] = "in"]
    /\ order' = Append(order, [op |-> seen[t].op, arg |-> seen[t].arg, slot |-> 0])
    /\ seen' = [seen EXCEPT ![t] = [@ EXCEPT !.at = Len(order) + 1, !.mem = mem,
                                              !.pages = pages, !.head = HEAP_ANCHOR]]
    /\ UNCHANGED <<HEAP_ANCHOR, mem, pages, overflow_checks, status, diag, op, arg,
                   ret, path, live, released, ever, fresh, nops, loop>>

\* the thread writes what its call computed from what it read, and returns:
\* the guard is dropped
ThreadReturn(t, slot) ==
    /\ pc[t] = "in"
    /\ IF seen[t].op = "malloc"
       THEN MallocOn(seen[t].mem, seen[t].pages, seen[t].head, seen[t].arg, slot)
       ELSE slot = 0 /\ FreeOn(seen[t].mem, seen[t].pages, seen[t].head, seen[t].arg)
    /\ mutex' = IF mutex = t THEN 0 ELSE mutex
    /\ pc' = [pc EXCEPT ![t] = "idle"]
    /\ order' = [order EXCEPT ![seen[t].at] = [@ EXCEPT !.slot = slot]]
    /\ seen' = [seen EXCEPT ![t] = NoCall]
    /\ UNCHANGED loop

NextThreads ==
    \/ \E t \in Threads, size \in ThreadSizes : ThreadCall(t, "malloc", size)
    \/ \E t \in Threads, ptr \in DOMAIN live : ThreadCall(t, "free", ptr)
    \/ \E t \in Threads : ThreadLock(t)
    \/ \E t \in Threads, slot \in 0 .. NSlots : ThreadReturn(t, slot)

SpecThreads == Init /\ [][NextThreads]_vars

\* the state the calls of `calls` leave when made one after the other
RECURSIVE Replay(_, _, _)
Replay(calls, i, st) ==
    IF i > Len(calls) \/ st.status # "ok" THEN st
    ELSE Bind(IF calls[i].op = "malloc"
              THEN malloc(st.mem, st.pages, st.head, calls[i].arg, calls[i].slot,
                          overflow_checks)
              ELSE free(st.mem, st.pages, st.head, calls[i].arg, overflow_checks),
              LAMBDA r :
         Replay(calls, i + 1, [mem |-> r.mem, pages |-> r.pages, head |-> r.head,
                               status |-> r.status]))

\* ------------------------------------------------------------------ claims

\* C1: malloc never returns an address that is live (returned earlier and not
\* released since), and the payload ranges [p, p+size) of any two live
\* allocations are disjoint.
Disjoint(l) ==
    \A p \in DOMAIN l : \A q \in DOMAIN l :
        p # q => (p + l[p] <= q \/ q + l[q] <= p)
C1_LiveAddressesDistinctAndDisjoint ==
    [][(op' = "malloc" /\ status' = "ok")
         => (ret' \notin DOMAIN live /\ Disjoint(live'))]_vars

\* C2: the address p malloc returns is non-null, the block header at
\* p - sizeof(Block) has free == false and data_size == round_up(size, 8), and
\* for a request that is not large that header is exactly one block of some
\* arena's block list.
C2_ReturnedAddressFollowsItsHeader ==
    (op = "malloc" /\ status = "ok") =>
        /\ ret # 0
        /\ LowByte(Rd(mem, ret - Block_size + B_free)) = 0
        /\ Rd(mem, ret - Block_size + B_data_size) = align(8, arg)
        /\ path # "large" =>
             Cardinality({h \in ArenaSet(mem, pages, HEAP_ANCHOR) :
                            ret - Block_size \in BlockSet(mem, pages, h)}) = 1

\* C3: free(p) of an address that malloc returned and that was not released
\* since completes without a fatal error.
C3_ReleaseOfLiveAddressCompletes ==
    [][(op' = "free" /\ arg' \in DOMAIN live) => status' = "ok"]_vars

\* C4: free(p) of an address that was already released, and not returned
\* again since, panics with "double free detected" and changes no allocator
\* state.
C4_DoubleFreeIsDiagnosed ==
    [][(op' = "free" /\ arg' \in released)
         => /\ status' = "panic"
            /\ diag' = "double free detected"
            /\ mem' = mem /\ pages' = pages /\ HEAP_ANCHOR' = HEAP_ANCHOR]_vars

\* C5: when the page provider fails, malloc returns null and leaves the list
\* head, every arena and every block unchanged.
C5_MapFailureReturnsNull ==
    [][(op' = "malloc" /\ diag' = "map failed")
         => /\ status' = "ok"
            /\ ret' = 0
            /\ mem' = mem /\ pages' = pages /\ HEAP_ANCHOR' = HEAP_ANCHOR]_vars

\* C6: free(p) of an address malloc never returned (null included) panics
\* with "invalid pointer", touches no memory outside the mapped regions,
\* unmaps nothing and changes no arena or block.
C6_UnknownAddressIsDiagnosed ==
    [][(op' = "free" /\ arg' \notin ever)
         => /\ status' = "panic"
            /\ diag' = "invalid pointer"
            /\ mem' = mem /\ pages' = pages /\ HEAP_ANCHOR' = HEAP_ANCHOR]_vars

\* C7: after every malloc and free, in every arena of the list free_size is
\* the sum over its free blocks of (data_size + sizeof(Block)) plus the unused
\* tail after its last block, and is at most total_size - sizeof(Heap).
FreeBlockBytes(m, bs) ==
    SumSeq([i \in 1 .. Len(bs) |->
              IF LowByte(Rd(m, bs[i] + B_free)) = 1
              THEN Rd(m, bs[i] + B_data_size) + Block_size ELSE 0])
TailBytes(m, h, bs) ==
    IF bs = <<>> THEN Rd(m, h + H_total_size) - Heap_size
    ELSE (h + Rd(m, h + H_total_size))
         - (bs[Len(bs)] + Block_size + Rd(m, bs[Len(bs)] + B_data_size))
C7_FreeSizeAccounting ==
    AfterCall =>
        \A h \in ArenaSet(mem, pages, HEAP_ANCHOR) :
            Bind(BlockSeq(mem, pages, h), LAMBDA bs :
                /\ Rd(mem, h + H_free_size) = FreeBlockBytes(mem, bs) + TailBytes(mem, h, bs)
                /\ ULe(Rd(mem, h + H_free_size), Rd(mem, h + H_total_size) - Heap_size))

\* C8: after every malloc and free, in every arena of the list block_count is
\* the number of block headers reached by following next from the arena body.
C8_BlockCountIsListLength ==
    AfterCall =>
        \A h \in ArenaSet(mem, pages, HEAP_ANCHOR) :
            Rd(mem, h + H_block_count) = Len(BlockSeq(mem, pages, h))

\* C9: after every malloc and free the prev/next pointers of every block list
\* agree (b.next.prev == b, the first prev and the last next are null), and
\* every block that was in a list and was not coalesced away is still in it.
LinksAgree(m, pg, h) ==
    Bind(BlockSeq(m, pg, h), LAMBDA bs :
        /\ bs # <<>> =>
             /\ Rd(m, bs[1] + B_previous) = 0
             /\ Rd(m, bs[Len(bs)] + B_next) = 0
        /\ \A i \in 1 .. (Len(bs) - 1) : Rd(m, bs[i + 1] + B_previous) = bs[i])
CoalescedAway ==
    IF op' = "free"
    THEN {arg' - Block_size, Rd(mem, arg' - Block_size + B_next)}
    ELSE {}
C9_BlockListStaysLinked ==
    [][(status' = "ok" /\ op' \in {"malloc", "free"})
         => /\ \A h \in ArenaSet(mem', pages', HEAP_ANCHOR') : LinksAgree(mem', pages', h)
            /\ \A h \in ArenaSet(mem, pages, HEAP_ANCHOR)
                          \cap ArenaSet(mem', pages', HEAP_ANCHOR') :
                  BlockSet(mem, pages, h) \ BlockSet(mem', pages', h)
                      \subseteq CoalescedAway]_vars

\* C10: after every malloc and free, in every arena the block list is in
\* ascending address order and contiguous (address(b.next) == address(b) +
\* sizeof(Block) + b.data_size), and the first block is at the arena body.
C10_BlocksContiguousInAddressOrder ==
    AfterCall =>
        \A h \in ArenaSet(mem, pages, HEAP_ANCHOR) :
            /\ Rd(mem, h + H_block_count) # 0 =>
                 /\ BlockSeq(mem, pages, h) # <<>>
                 /\ BlockSeq(mem, pages, h)[1] = h + Heap_size
            /\ \A b \in BlockSet(mem, pages, h) :
                  Rd(mem, b + B_next) # 0 =>
                     /\ Rd(mem, b + B_next) = b + Block_size + Rd(mem, b + B_data_size)
                     /\ b < Rd(mem, b + B_next)

\* C11: after every malloc and free, no arena's block list holds two
\* consecutive blocks that both have free == true.
IsFree(m, b) == LowByte(Rd(m, b + B_free)) = 1
NoAdjacentFree(m, pg, h) ==
    Bind(BlockSeq(m, pg, h), LAMBDA bs :
        \A i \in 1 .. (Len(bs) - 1) : ~(IsFree(m, bs[i]) /\ IsFree(m, bs[i + 1])))
C11_NoTwoAdjacentFreeBlocks ==
    AfterCall =>
        \A h \in ArenaSet(mem, pages, HEAP_ANCHOR) : NoAdjacentFree(mem, pages, h)

\* C12: after every malloc and free, every block of every arena of the list,
\* header and payload, lies inside the arena's body
\* [arena + sizeof(Heap), arena + total_size).
InsideBody(m, h, b) ==
    /\ h + Heap_size <= b
    /\ ULe(Rd(m, b + B_data_size), Rd(m, h + H_total_size))
    /\ b + Block_size + Rd(m, b + B_data_size) <= h + Rd(m, h + H_total_size)
C12_BlocksLieInsideTheirArena ==
    AfterCall =>
        \A h \in ArenaSet(mem, pages, HEAP_ANCHOR) :
            \A b \in BlockSet(mem, pages, h) : InsideBody(mem, h, b)

\* C13: in every state after a call in which every address malloc returned
\* has been released, at most one arena is still mapped, and at most one is
\* linked in the arena list.
MappedRegions(pg) == {slot \in 1 .. NSlots : Mapped(pg, SlotBase(slot))}
C13_AtMostOneArenaAfterReleasingAll ==
    (AfterCall /\ ever # {} /\ DOMAIN live = {}) =>
        /\ Cardinality(MappedRegions(pages)) <= 1
        /\ Len(ArenaSeq(mem, pages, HEAP_ANCHOR)) <= 1

\* C14: a malloc whose aligned size exceeds SMALL_HEAP_ALLOCATION_SIZE maps a
\* region of its own of aligned size + sizeof(Block) bytes, a later free of
\* that address unmaps exactly that region, and both calls leave the list
\* head, every arena's fields and every block list as they were.
HeapFields(m, h) ==
    [f \in {H_group, H_group_payload, H_next, H_previous, H_total_size,
            H_free_size, H_block_count} |-> Rd(m, h + f)]
BlockFields(m, b) ==
    [f \in {B_next, B_previous, B_data_size, B_free} |-> Rd(m, b + f)]
ArenaView(m, pg, head) ==
    Bind(ArenaSeq(m, pg, head), LAMBDA as :
        [i \in 1 .. Len(as) |->
            <<as[i], HeapFields(m, as[i]),
              Bind(BlockSeq(m, pg, as[i]), LAMBDA bs :
                  [j \in 1 .. Len(bs) |-> <<bs[j], BlockFields(m, bs[j])>>])>>])
\* the arenas are those in the pages pg, mapped before and after the call
ArenasUntouched(pg) ==
    /\ HEAP_ANCHOR' = HEAP_ANCHOR
    /\ ArenaView(mem', pg, HEAP_ANCHOR') = ArenaView(mem, pg, HEAP_ANCHOR)
IsLargeRequest(size) == ULt(SMALL_HEAP_ALLOCATION_SIZE, align(8, size))
C14_LargeRegionsAreMappedAndUnmappedAlone ==
    [][/\ (op' = "malloc" /\ IsLargeRequest(arg') /\ diag' # "map failed")
            => /\ status' = "ok"
               /\ PagesOf(ret' - Block_size, align(8, arg') + Block_size) \cap pages = {}
               /\ pages' = pages \cup PagesOf(ret' - Block_size, align(8, arg') + Block_size)
               /\ ArenasUntouched(pages)
       /\ (op' = "free" /\ arg' \in DOMAIN live /\ IsLargeRequest(live[arg']))
            => /\ status' = "ok"
               /\ pages' = pages \ PagesOf(arg' - Block_size, live[arg'] + Block_size)
               /\ ArenasUntouched(pages')]_vars

\* C15: no arena of the list ever has the class Large, and a request of the
\* large class (aligned size > SMALL_BLOCK_SIZE) is placed in a region mapped
\* for it alone: one that held no mapping before, and in which no later
\* malloc places a block while the allocation is live.
RegionOf(a) == a \div SlotBase(1)
IsLargeClass(size) == HeapGroup_from(align(8, size)) = Large
C15_LargeAllocationsShareNoArena ==
    [][(status' = "ok" /\ op' = "malloc")
         => /\ \A h \in ArenaSet(mem', pages', HEAP_ANCHOR') :
                  LowByte(Rd(mem', h + H_group)) # Large
            /\ IsLargeClass(arg') => ~Mapped(pages, ret')
            /\ \A p \in DOMAIN live :
                  (IsLargeClass(live[p]) /\ p # ret') => RegionOf(p) # RegionOf(ret')]_vars

\* C16: when a caller repeats a = malloc(s); free(a), every iteration
\* completes without a fatal error, and after every iteration from the second
\* on each arena's free_size and block_count are what they were after the
\* first.  (A failure of the page provider is not counted against the claim.)
C16_RepeatedAllocFreeKeepsAccounting ==
    diag # "map failed" =>
        /\ status = "ok"
        /\ (op = "free" /\ loop.iter >= 1) =>
              Accounting(mem, pages, HEAP_ANCHOR) = loop.acct

\* C17: with several threads calling malloc and free, at most one thread at
\* a time is past lock() and before its return, that thread holds the mutex
\* and the list head, arenas and blocks it has read are still as it read them
\* (no other thread has written them), and whenever no call is in progress
\* the allocator's state is the one the calls made so far leave when executed
\* one after the other in the order they acquired the mutex.
C17_CallsAreSerializedByTheMutex ==
    /\ Cardinality({t \in Threads : pc[t] = "in"}) <= 1
    /\ \A t \in Threads :
          pc[t] = "in" =>
             /\ mutex = t
             /\ seen[t].mem = mem /\ seen[t].pages = pages /\ seen[t].head = HEAP_ANCHOR
    /\ (\A t \in Threads : pc[t] # "in") =>
          Replay(order, 1, [mem |-> EmptyMap, pages |-> {}, head |-> 0, status |-> "ok"])
             = [mem |-> mem, pages |-> pages, head |-> HEAP_ANCHOR, status |-> status]
C17_Witness ==
    /\ \E t \in Threads, u \in Threads :
          /\ pc[t] = "in" /\ pc[u] = "lock"
          /\ seen[t].op = "malloc" /\ ULt(SMALL_HEAP_ALLOCATION_SIZE, seen[t].arg)
    /\ Len(order) >= 3
    /\ status = "ok"

\* C18: after every malloc and free, every arena reached from the list head
\* by following next is a mapped region: an arena that was unmapped is no
\* longer linked.
RECURSIVE LinkedArenasMapped(_, _, _, _)
LinkedArenasMapped(m, pg, h, fuel) ==
    \/ h = 0
    \/ fuel = 0
    \/ /\ AllMapped(pg, {h, h + H_block_count})
       /\ LinkedArenasMapped(m, pg, Rd(m, h + H_next), fuel - 1)
C18_LinkedArenasAreMapped ==
    AfterCall => LinkedArenasMapped(mem, pages, HEAP_ANCHOR, MaxWalk)

\* C19: a malloc of aligned size s <= SMALL_HEAP_ALLOCATION_SIZE places its
\* block in the first arena of the list, in order from the head, whose class
\* is HeapGroup::from(s) and whose free_size is at least s + sizeof(Block),
\* and maps nothing; when there is no such arena it maps a new arena of that
\* class, which becomes the list head with the old head as its next, and
\* places the block there.  (A failure of the page provider is not counted
\* against the claim.)
FirstFit(m, pg, head, s) ==
    Bind(ArenaSeq(m, pg, head), LAMBDA as :
    Bind({i \in 1 .. Len(as) :
             /\ LowByte(Rd(m, as[i] + H_group)) = HeapGroup_from(s)
             /\ ULe(s + Block_size, Rd(m, as[i] + H_free_size))}, LAMBDA fit :
    IF fit = {} THEN 0 ELSE as[CHOOSE i \in fit : \A j \in fit : i <= j]))
PlacedBlock == IF path' = "exact" THEN ret' ELSE ret' - Block_size
PlacedIn(h) == PlacedBlock \in BlockSet(mem', pages', h)
C19_Placement ==
    Bind(FirstFit(mem, pages, HEAP_ANCHOR, align(8, arg')), LAMBDA h :
        IF h # 0
        THEN /\ pages' = pages
             /\ HEAP_ANCHOR' = HEAP_ANCHOR
             /\ PlacedIn(h)
        ELSE /\ HEAP_ANCHOR' # HEAP_ANCHOR
             /\ ~Mapped(pages, HEAP_ANCHOR') /\ Mapped(pages', HEAP_ANCHOR')
             /\ Rd(mem', HEAP_ANCHOR' + H_next) = HEAP_ANCHOR
             /\ LowByte(Rd(mem', HEAP_ANCHOR' + H_group)) = HeapGroup_from(align(8, arg'))
             /\ PlacedIn(HEAP_ANCHOR'))
C19_FirstFittingArenaOfTheClass ==
    [][(op' = "malloc" /\ ~IsLargeRequest(arg') /\ diag' # "map failed")
         => (status' = "ok" /\ C19_Placement)]_vars

\* C20: whenever malloc splits a free block of size old for a request of
\* aligned size s (old > s), old - s >= sizeof(Block): the remainder's
\* data_size old - s - sizeof(Block) is computed without unsigned underflow,
\* and the remainder, header and payload, ends where the free block ended.
SplitBlock(s) ==
    get_free_block(mem, pages, s, FirstFit(mem, pages, HEAP_ANCHOR, s)).blk
C20_SplitIsSound(s, free_block, old) ==
    /\ ULt(s, old)
    /\ ULe(Block_size, old - s)
    /\ status' = "ok"
    /\ Rd(mem', free_block + Block_size + s + B_data_size) = old - s - Block_size
    /\ (free_block + Block_size + s) + Block_size
          + Rd(mem', free_block + Block_size + s + B_data_size)
       = free_block + Block_size + old
C20_SplitRemainderDoesNotUnderflow ==
    [][(op' = "malloc" /\ path' = "split")
         => C20_SplitIsSound(align(8, arg'), SplitBlock(align(8, arg')),
                             Rd(mem, SplitBlock(align(8, arg')) + B_data_size))]_vars

====
